---- MODULE Spec2Model ----
(***************************************************************************)
(* Model of the action runner of modernice/vue-ui                           *)
(* (src/src/composables/useAction/index.ts): createUseAction / useAction    *)
(* and the `run` function they return, with the two observables `pending`   *)
(* and `error` ("lastError" in the specification).                          *)
(*                                                                          *)
(* JavaScript runs `run` on one thread.  A call of `run` executes           *)
(* synchronously up to `await action(...args)`; the rest of the function    *)
(* (lines 80-81 or 83-111) executes as one uninterrupted step once the      *)
(* awaited value has settled.  An action that throws synchronously makes    *)
(* the catch block run inside the call itself.  Each of these uninterrupted *)
(* stretches is one action of the model.                                    *)
(*                                                                          *)
(* The module also models the search filter useSearch                       *)
(* (src/unnamed/part_002) with forceArray (src/unnamed/part_003): the       *)
(* list, the terms, the options, the `input` ref and the computed `result`. *)
(* The two helpers share nothing: specification Spec runs the action runner *)
(* and leaves the search filter idle, SearchSpec does the opposite.         *)
(***************************************************************************)
EXTENDS Naturals, Sequences, FiniteSets

VARIABLES
  throwOpt,      \* options.throw: "unset", "false" or "true"
  parseOpt,      \* options.parseError: NoParser or the name of a parser
  baseParse,     \* baseOptions.parseError of createUseAction
  disabledKind,  \* how options.disabled was given: "unset", "static", "ref"
  disabled,      \* current value of toRef(opts.disabled)   (line 63)
  pending,       \* ref `pending`                           (line 65)
  error,         \* ref `error`                             (line 66)
  calls,         \* one record per call of run, in call order
  invoked,       \* how often the action has been invoked (the spy's count)
  overlapped,    \* history: an enabled call was made while one was in flight
  newest,        \* history: the invocation started last, and how it ended
  lastFailure,   \* history: the Error caught last since the latest start
  last           \* history: what the latest step did

runnerVars == <<throwOpt, parseOpt, baseParse, disabledKind, disabled,
                pending, error, calls, invoked, overlapped, newest,
                lastFailure, last>>

VARIABLES
  list,          \* _list.value: the items                (part_002, line 68)
  termsSpec,     \* `terms`: field name(s) or a function  (part_002, line 39)
  searchOpts,    \* options: caseSensitive, strict, trim  (part_002, line 40)
  input,         \* ref `input`                           (part_002, line 90)
  result,        \* computed `result`                     (part_002, line 113)
  slast          \* history: what the latest step of the filter did

searchVars == <<list, termsSpec, searchOpts, input, result, slast>>

vars == <<runnerVars, searchVars>>

config == <<throwOpt, parseOpt, baseParse, disabledKind>>

(***************************************************************************)
(* Bounds of the model.                                                     *)
(***************************************************************************)
MaxCalls == 3

(***************************************************************************)
(* JavaScript values.  Every value is a record [t, c, s]: t the type tag,   *)
(* c the class of an Error object, s the string payload (a string's text,   *)
(* a number's decimal form, an Error's message).                            *)
(***************************************************************************)
Null == [t |-> "null", c |-> "", s |-> ""]
Undefined == [t |-> "undefined", c |-> "", s |-> ""]
Str(s) == [t |-> "string", c |-> "", s |-> s]
Num(s) == [t |-> "number", c |-> "", s |-> s]
Err(c, m) == [t |-> "error", c |-> c, s |-> m]

\* e instanceof Error
IsError(v) == v.t = "error"

\* Error.prototype.name: TypeError and RangeError set their own, a class that
\* only extends Error (CustomError of the tests) inherits "Error".
ErrorName(c) == IF c \in {"TypeError", "RangeError"} THEN c ELSE "Error"

\* String(v) and `${v}`
ToStr(v) ==
  CASE v.t = "string" -> v.s
    [] v.t = "number" -> v.s
    [] v.t = "null" -> "null"
    [] v.t = "undefined" -> "undefined"
    [] v.t = "error" ->
         IF v.s = "" THEN ErrorName(v.c) ELSE ErrorName(v.c) \o ": " \o v.s

\* Inputs: the arguments of a call, what an action resolves to, what it throws.
ArgLists == {<<>>, <<Str("bar"), Num("5")>>}
Values == {Str("hello"), Null}
ThrownErrors == {Err("Error", "foo"), Err("RangeError", "")}
ThrownOthers == {Str("oops"), Num("42"), Undefined}
Thrown == ThrownErrors \cup ThrownOthers

(***************************************************************************)
(* parseError functions a caller may configure (those of the tests).        *)
(***************************************************************************)
NoParser == "none"
OptionParsers == {"appendBaz", "toCustomError"}
BaseParsers == {"appendBar"}

ApplyParser(p, e) ==
  CASE p = "appendBar" -> Str(e.s \o " bar")
    [] p = "appendBaz" -> Str(e.s \o " baz")
    [] p = "toCustomError" -> Err("CustomError", "custom: " \o e.s \o " bar")

(***************************************************************************)
(* useAction, lines 61-66.                                                  *)
(***************************************************************************)
\* defu(options, baseOptions).parseError: the options' own value unless it is
\* undefined, else the base value.
DefuBaseWins(opt, base) == IF base # NoParser THEN base ELSE opt
Defu(opt, base) == IF opt # NoParser THEN opt ELSE base

OptsParseError == Defu(parseOpt, baseParse)

\* opts?.throw, as the conditions of lines 94 and 103 read it
OptsThrow == throwOpt = "true"

\* disabled.value, as the condition of line 71 reads it
IsDisabledOrBusy == disabled \/ pending
IsDisabled == disabled

InFlight == {i \in 1..Len(calls) : calls[i].st = "running"}

Resolved(v) == [k |-> "resolved", v |-> v]
Rejected(v) == [k |-> "rejected", v |-> v]
Unsettled == [k |-> "pending", v |-> Undefined]

NoOutcome == [k |-> "none", v |-> Undefined]
Returned(v) == [k |-> "return", v |-> v]
Threw(v) == [k |-> "throw", v |-> v]

\* the record kept of the latest step
\* the invocation started last (0: none yet) and the outcome of its action:
\* none yet, a return (the value is not kept) or the value thrown
Newest(call, outcome) ==
  [call |-> call,
   out |-> IF outcome.k = "return" THEN Returned(Undefined) ELSE outcome]
\* `newest` once the action of call i has ended with outcome
NewestAfter(i, outcome) ==
  IF i = newest.call THEN Newest(i, outcome) ELSE newest
\* `lastFailure` once a catch block has caught e (only an Error is recorded
\* by lines 91-101)
FailureAfter(e, cur) == IF IsError(e) THEN Threw(e) ELSE cur

Event(op, call, args, received, outcome, settled, parsed) ==
  [op |-> op, call |-> call, args |-> args, received |-> received,
   outcome |-> outcome, result |-> settled, parsed |-> parsed,
   prevPending |-> pending, prevError |-> error, prevInvoked |-> invoked,
   prevInFlight |-> InFlight,
   undisturbed |-> IF call \in InFlight THEN ~calls[call].errSince ELSE TRUE]

(***************************************************************************)
(* The search filter, useSearch (src/unnamed/part_002).                     *)
(*                                                                          *)
(* A string is the sequence of its characters.  A value that is either one  *)
(* thing or an array of things (MaybeArray<T>) is a record [isArray, one,   *)
(* many].                                                                   *)
(***************************************************************************)
MaxQueryLen == 2

One(x) == [isArray |-> FALSE, one |-> x, many |-> <<>>]
Many(a) == [isArray |-> TRUE, one |-> <<>>, many |-> a]
\* the same for field names, which are atoms
OneName(n) == [isArray |-> FALSE, one |-> n, many |-> <<>>]
ManyNames(ns) == [isArray |-> TRUE, one |-> "", many |-> ns]

\* forceArray (part_003, lines 14-16)
ForceArray(value) == IF value.isArray THEN value.many ELSE <<value.one>>

\* Array.prototype.flat, one level
Flat(a) ==
  LET F[i \in 0..Len(a)] == IF i = 0 THEN <<>> ELSE F[i - 1] \o a[i]
  IN F[Len(a)]

\* Array.prototype.filter, keep being the indexes its predicate accepts
FilterByIndex(l, keep) ==
  LET F[i \in 0..Len(l)] ==
        IF i = 0 THEN <<>>
        ELSE IF i \in keep THEN Append(F[i - 1], l[i]) ELSE F[i - 1]
  IN F[Len(l)]

\* String.prototype.toLowerCase, on the letters the model uses
LowerChar(c) ==
  CASE c = "B" -> "b"
    [] c = "O" -> "o"
    [] c = "L" -> "l"
    [] OTHER -> c
ToLowerCase(str) == [i \in 1..Len(str) |-> LowerChar(str[i])]

\* String.prototype.trim
IsSpace(c) == c \in {" ", "\t"}
Trim(str) ==
  LET keep == {i \in 1..Len(str) : ~IsSpace(str[i])}
  IN IF keep = {} THEN <<>>
     ELSE SubSeq(str, CHOOSE i \in keep : \A j \in keep : i <= j,
                      CHOOSE i \in keep : \A j \in keep : i >= j)

\* String.prototype.includes
Includes(str, q) ==
  \E i \in 1..(Len(str) + 1) :
    /\ i + Len(q) - 1 <= Len(str)
    /\ SubSeq(str, i, i + Len(q) - 1) = q

\* Inputs: the items, the lists, the terms and the queries.
Bob == [first |-> One(<<"B", "o", "b">>),
        last |-> One(<<"B", "e", "l">>),
        tags |-> Many(<< <<"b", "o">>, <<"O", "b">> >>)]
Linda == [first |-> One(<<"L", "i">>),
          last |-> One(<<" ", "B", "o", " ">>),
          tags |-> Many(<<>>)]
Lists == {<<>>, <<Bob, Linda>>, <<Linda, Bob, Linda>>}

\* `terms` given as field name(s), or as a function that returns the values
\* of the named fields as an array (asString: the first one, as a string)
Fields(names) == [isFn |-> FALSE, names |-> names, asString |-> FALSE]
Fn(names, asString) ==
  [isFn |-> TRUE, names |-> ManyNames(names), asString |-> asString]
TermsSpecs ==
  {Fields(OneName("first")), Fields(ManyNames(<<"first">>)),
   Fields(ManyNames(<<"first", "last">>)),
   Fields(ManyNames(<<"last", "tags">>)),
   Fn(<<>>, FALSE), Fn(<<"first", "last">>, FALSE), Fn(<<"last">>, TRUE)}

Alphabet == {"b", "B", " "}
StringsUpTo(n) ==
  UNION {[1..k -> Alphabet] : k \in 0..n}
Queries ==
  StringsUpTo(MaxQueryLen)
    \cup {<<"B", "o", "b">>, <<"B", "O", "B">>, <<" ", "B", "o", " ">>,
          <<"B", "o">>, <<"o", "b">>}

SearchOptions ==
  [caseSensitive : BOOLEAN, strict : BOOLEAN, trim : {"unset", "false", "true"}]

\* the value a terms function returns for an item
TermsFn(ts, item) ==
  IF ts.asString THEN item[ts.names.many[1]]
  ELSE Many(Flat([k \in 1..Len(ts.names.many) |->
                    ForceArray(item[ts.names.many[k]])]))

\* getTerms (lines 71-82)
GetTermsFirstFieldOnly(ts, item) ==
  IF ~ts.isFn
  THEN ForceArray(item[ForceArray(ts.names)[1]])
  ELSE ForceArray(TermsFn(ts, item))
GetTerms(ts, item) ==
  IF ~ts.isFn
  THEN LET fields == ForceArray(ts.names)
       IN Flat([k \in 1..Len(fields) |-> ForceArray(item[fields[k]])])
  ELSE ForceArray(TermsFn(ts, item))

\* maybeTrim (lines 100-102)
MaybeTrim(o, str) == IF o.trim = "true" THEN Trim(str) ELSE str

\* modifiedInput (lines 92-98)
ModifiedInput(o, q) ==
  MaybeTrim(o, IF o.strict \/ o.caseSensitive THEN q ELSE ToLowerCase(q))

\* termsMap (lines 104-108)
TermsMap(l, ts) == [index \in 1..Len(l) |-> GetTerms(ts, l[index])]

\* the predicate of `some` (lines 119-123)
TermMatchesAsIs(o, term, q) ==
  IF o.strict
  THEN term = ModifiedInput(o, q)
  ELSE Includes(MaybeTrim(o, term), ModifiedInput(o, q))
TermMatches(o, term, q) ==
  IF o.strict
  THEN term = ModifiedInput(o, q)
  ELSE Includes(MaybeTrim(o, ToLowerCase(term)), ModifiedInput(o, q))

\* the function of `result` (lines 113-126)
ResultOfAlwaysFilters(l, ts, o, q) ==
  FilterByIndex(l, {index \in 1..Len(l) :
    \E k \in 1..Len(TermsMap(l, ts)[index]) :
      TermMatches(o, TermsMap(l, ts)[index][k], q)})
ResultOf(l, ts, o, q) ==
  IF ModifiedInput(o, q) # <<>>
  THEN FilterByIndex(l, {index \in 1..Len(l) :
         \E k \in 1..Len(TermsMap(l, ts)[index]) :
           TermMatches(o, TermsMap(l, ts)[index][k], q)})
  ELSE l

\* the computed `result` evaluated again after a change of list or input;
\* prev is its previous value
RefreshNarrowsPrevious(l, q, prev) == ResultOf(prev, termsSpec, searchOpts, q)
Refresh(l, q, prev) == ResultOf(l, termsSpec, searchOpts, q)

\* the record kept of the latest step: the list as the evaluation of `result`
\* found it, and whether the previous result had left out items
SearchEvent(op, l) == [op |-> op, listBefore |-> l, narrowed |-> result # list]

\* the search filter not in use
SearchIdle ==
  /\ list = <<>>
  /\ termsSpec = Fn(<<>>, FALSE)
  /\ searchOpts = [caseSensitive |-> FALSE, strict |-> FALSE, trim |-> "unset"]
  /\ input = <<>>
  /\ result = <<>>
  /\ slast = [op |-> "idle", listBefore |-> <<>>, narrowed |-> FALSE]

Init ==
  /\ throwOpt \in {"unset", "false", "true"}
  /\ parseOpt \in {NoParser} \cup OptionParsers
  /\ baseParse \in {NoParser} \cup BaseParsers
  /\ disabledKind \in {"unset", "static", "ref"}
  /\ disabled \in IF disabledKind = "unset" THEN {FALSE} ELSE BOOLEAN
  /\ pending = FALSE
  /\ error = Null
  /\ calls = <<>>
  /\ invoked = 0
  /\ overlapped = FALSE
  /\ newest = Newest(0, NoOutcome)
  /\ lastFailure = NoOutcome
  /\ last = Event("init", 0, <<>>, <<>>, NoOutcome, Unsettled, <<>>)
  /\ SearchIdle

(***************************************************************************)
(* run, lines 68-113.                                                       *)
(***************************************************************************)
\* line 75
ErrorOnStartKept == error
ErrorOnStart == Null
\* line 76
PendingOnStartStaysFalse == FALSE
PendingOnStart == TRUE
\* lines 80 and 83
PendingOnSettleStaysTrue == TRUE
PendingOnSettleWhileOthersRun == Cardinality(InFlight) > 1
PendingOnSettle == FALSE
\* line 79: the action is called with run's arguments
ActionArgs(args) == args

\* lines 85-111: what the catch block does with the caught value e when the
\* value of `error` is cur: the new value of `error`, how run's promise
\* settles, and the arguments parseError was called with.
CatchCoerces(e, cur) ==
  LET err == IF IsError(e) THEN e ELSE Err("Error", ToStr(e))
      p == IF OptsParseError = NoParser THEN Str(err.s)
           ELSE ApplyParser(OptsParseError, err)
  IN [error |-> p,
      result |-> IF OptsThrow
                 THEN Rejected(IF OptsParseError = NoParser THEN e
                               ELSE IF IsError(p) THEN p
                               ELSE Err("Error", ToStr(p)))
                 ELSE Resolved(Null),
      parsed |-> IF OptsParseError = NoParser THEN <<>> ELSE <<err>>]
CatchStoresRawError(e, cur) ==
  IF ~IsError(e)
  THEN [error |-> cur,
        result |-> Rejected(Err("TypeError",
                     "Action threw a non-Error object: " \o ToStr(e))),
        parsed |-> <<>>]
  ELSE [error |-> IF OptsParseError = NoParser THEN e
                  ELSE ApplyParser(OptsParseError, e),
        result |-> IF OptsThrow THEN Rejected(e) ELSE Resolved(Null),
        parsed |-> IF OptsParseError = NoParser THEN <<>> ELSE <<e>>]
CatchRethrowsOriginal(e, cur) ==
  IF ~IsError(e)
  THEN [error |-> cur,
        result |-> Rejected(Err("TypeError",
                     "Action threw a non-Error object: " \o ToStr(e))),
        parsed |-> <<>>]
  ELSE [error |-> IF OptsParseError = NoParser THEN Str(e.s)
                  ELSE ApplyParser(OptsParseError, e),
        result |-> IF OptsThrow THEN Rejected(e) ELSE Resolved(Null),
        parsed |-> IF OptsParseError = NoParser THEN <<>> ELSE <<e>>]
Catch(e, cur) ==
  IF ~IsError(e)
  THEN [error |-> cur,
        result |-> Rejected(Err("TypeError",
                     "Action threw a non-Error object: " \o ToStr(e))),
        parsed |-> <<>>]
  ELSE IF OptsParseError = NoParser
  THEN [error |-> Str(e.s),
        result |-> IF OptsThrow THEN Rejected(e) ELSE Resolved(Null),
        parsed |-> <<>>]
  ELSE LET p == ApplyParser(OptsParseError, e)
       IN [error |-> p,
           result |-> IF OptsThrow
                      THEN Rejected(IF IsError(p) THEN p
                                    ELSE Err("Error", ToStr(p)))
                      ELSE Resolved(Null),
           parsed |-> <<e>>]

\* the record of a new call in state st; dis: the value of `disabled` when run
\* was called; errSince: the failure of another call has been written to
\* `error` since this call started (kept while the call is running)
Call(st) == [dis |-> disabled, st |-> st, errSince |-> FALSE]
\* the record of call i once it has settled in state st
Settled(i, st) == [calls[i] EXCEPT !.st = st, !.errSince = FALSE]

\* the calls still running learn that `error` was written with newError
NoteError(cs, newError, old) ==
  [j \in 1..Len(cs) |->
     IF cs[j].st = "running" /\ newError # old /\ newError # Null
     THEN [cs[j] EXCEPT !.errSince = TRUE] ELSE cs[j]]

\* lines 71-73: run while disabled
RunDisabledResets(args) ==
  /\ Len(calls) < MaxCalls
  /\ IsDisabled
  /\ error' = Null
  /\ calls' = Append(calls, Call("resolved"))
  /\ last' = Event("run", Len(calls) + 1, args, <<>>, NoOutcome,
                   Resolved(Null), <<>>)
  /\ UNCHANGED <<searchVars, config, disabled, pending, invoked, overlapped,
               newest, lastFailure>>
RunDisabled(args) ==
  /\ Len(calls) < MaxCalls
  /\ IsDisabled
  /\ calls' = Append(calls, Call("resolved"))
  /\ last' = Event("run", Len(calls) + 1, args, <<>>, NoOutcome,
                   Resolved(Null), <<>>)
  /\ UNCHANGED <<searchVars, config, disabled, pending, error, invoked,
               overlapped, newest, lastFailure>>

\* lines 71-79: run while enabled, the action returning a value or a promise;
\* run is suspended at the await of line 79.
RunAwait(args) ==
  /\ Len(calls) < MaxCalls
  /\ ~IsDisabled
  /\ error' = ErrorOnStart
  /\ pending' = PendingOnStart
  /\ invoked' = invoked + 1
  /\ calls' = Append(calls, Call("running"))
  /\ overlapped' = (overlapped \/ InFlight # {})
  /\ newest' = Newest(Len(calls) + 1, NoOutcome)
  /\ lastFailure' = NoOutcome
  /\ last' = Event("run", Len(calls) + 1, args, <<ActionArgs(args)>>,
                   NoOutcome, Unsettled, <<>>)
  /\ UNCHANGED <<searchVars, config, disabled>>

\* lines 71-79 and 83-111: run while enabled, the action throwing e before it
\* returns; the catch block runs inside the call, after lines 75-76.
RunSyncThrowLeavesPending(args, e) ==
  /\ Len(calls) < MaxCalls
  /\ ~IsDisabled
  /\ LET c == Catch(e, ErrorOnStart) IN
       /\ error' = c.error
       /\ pending' = PendingOnStart
       /\ calls' = Append(NoteError(calls, c.error, ErrorOnStart),
                          Call(c.result.k))
       /\ last' = Event("run", Len(calls) + 1, args, <<ActionArgs(args)>>,
                        Threw(e), c.result, c.parsed)
  /\ invoked' = invoked + 1
  /\ overlapped' = (overlapped \/ InFlight # {})
  /\ newest' = Newest(Len(calls) + 1, Threw(e))
  /\ lastFailure' = FailureAfter(e, NoOutcome)
  /\ UNCHANGED <<searchVars, config, disabled>>
RunSyncThrow(args, e) ==
  /\ Len(calls) < MaxCalls
  /\ ~IsDisabled
  /\ LET c == Catch(e, ErrorOnStart) IN
       /\ error' = c.error
       /\ pending' = PendingOnSettle
       /\ calls' = Append(NoteError(calls, c.error, ErrorOnStart),
                          Call(c.result.k))
       /\ last' = Event("run", Len(calls) + 1, args, <<ActionArgs(args)>>,
                        Threw(e), c.result, c.parsed)
  /\ invoked' = invoked + 1
  /\ overlapped' = (overlapped \/ InFlight # {})
  /\ newest' = Newest(Len(calls) + 1, Threw(e))
  /\ lastFailure' = FailureAfter(e, NoOutcome)
  /\ UNCHANGED <<searchVars, config, disabled>>

\* lines 79-81: the awaited action of call i resolves to v
SettleReturn(i, v) ==
  /\ i \in InFlight
  /\ pending' = PendingOnSettle
  /\ calls' = [calls EXCEPT ![i] = Settled(i, "resolved")]
  /\ newest' = NewestAfter(i, Returned(v))
  /\ last' = Event("settle", i, <<>>, <<>>, Returned(v), Resolved(v), <<>>)
  /\ UNCHANGED <<searchVars, config, disabled, error, invoked, overlapped,
                 lastFailure>>

\* lines 79 and 82-111: the awaited action of call i rejects with e
SettleThrowFrozenWhileDisabled(i, e) ==
  /\ i \in InFlight
  /\ LET c == Catch(e, error) IN
       /\ error' = IF disabled THEN error ELSE c.error
       /\ pending' = IF disabled THEN pending ELSE PendingOnSettle
       /\ calls' = [NoteError(calls, c.error, error)
                      EXCEPT ![i] = Settled(i, c.result.k)]
       /\ last' = Event("settle", i, <<>>, <<>>, Threw(e), c.result, c.parsed)
  /\ newest' = NewestAfter(i, Threw(e))
  /\ lastFailure' = FailureAfter(e, lastFailure)
  /\ UNCHANGED <<searchVars, config, disabled, invoked, overlapped>>
SettleThrowNewestOnly(i, e) ==
  /\ i \in InFlight
  /\ LET c == Catch(e, error) IN
       /\ error' = IF i = newest.call THEN c.error ELSE error
       /\ pending' = PendingOnSettle
       /\ calls' = [NoteError(calls, c.error, error)
                      EXCEPT ![i] = Settled(i, c.result.k)]
       /\ last' = Event("settle", i, <<>>, <<>>, Threw(e), c.result, c.parsed)
  /\ newest' = NewestAfter(i, Threw(e))
  /\ lastFailure' = FailureAfter(e, lastFailure)
  /\ UNCHANGED <<searchVars, config, disabled, invoked, overlapped>>
SettleThrow(i, e) ==
  /\ i \in InFlight
  /\ LET c == Catch(e, error) IN
       /\ error' = c.error
       /\ pending' = PendingOnSettle
       /\ calls' = [NoteError(calls, c.error, error)
                      EXCEPT ![i] = Settled(i, c.result.k)]
       /\ last' = Event("settle", i, <<>>, <<>>, Threw(e), c.result, c.parsed)
  /\ newest' = NewestAfter(i, Threw(e))
  /\ lastFailure' = FailureAfter(e, lastFailure)
  /\ UNCHANGED <<searchVars, config, disabled, invoked, overlapped>>

\* the caller assigns the ref given as options.disabled (test, lines 223, 228)
SetDisabled(b) ==
  /\ disabledKind = "ref"
  /\ b # disabled
  /\ disabled' = b
  /\ last' = Event("toggle", 0, <<>>, <<>>, NoOutcome, Unsettled, <<>>)
  /\ UNCHANGED <<searchVars, config, pending, error, calls, invoked, overlapped,
               newest, lastFailure>>

Next ==
  \/ \E args \in ArgLists : RunDisabled(args)
  \/ \E args \in ArgLists : RunAwait(args)
  \/ \E args \in ArgLists, e \in Thrown : RunSyncThrow(args, e)
  \/ \E i \in 1..MaxCalls, v \in Values : SettleReturn(i, v)
  \/ \E i \in 1..MaxCalls, e \in Thrown : SettleThrow(i, e)
  \/ \E b \in BOOLEAN : SetDisabled(b)

Spec == Init /\ [][Next]_vars

\* a call of run that invokes the action (lines 75-79)
Start ==
  \/ \E args \in ArgLists : RunAwait(args)
  \/ \E args \in ArgLists, e \in Thrown : RunSyncThrow(args, e)
\* the continuation of a suspended run (lines 80-81 or 83-111)
Settle ==
  \/ \E i \in 1..MaxCalls, v \in Values : SettleReturn(i, v)
  \/ \E i \in 1..MaxCalls, e \in Thrown : SettleThrow(i, e)

\* Every action that was started settles, and the event loop then runs the
\* continuation of the run that awaits it.
LiveSpec == Spec /\ WF_vars(Settle)

(***************************************************************************)
(* The search filter in use.                                                *)
(***************************************************************************)
\* the action runner not in use
RunnerIdle ==
  /\ throwOpt = "unset"
  /\ parseOpt = NoParser
  /\ baseParse = NoParser
  /\ disabledKind = "unset"
  /\ disabled = FALSE
  /\ pending = FALSE
  /\ error = Null
  /\ calls = <<>>
  /\ invoked = 0
  /\ overlapped = FALSE
  /\ newest = Newest(0, NoOutcome)
  /\ lastFailure = NoOutcome
  /\ last = Event("init", 0, <<>>, <<>>, NoOutcome, Unsettled, <<>>)

\* useSearch(list, terms, options) (lines 37-131)
SearchInit ==
  /\ list \in Lists
  /\ termsSpec \in TermsSpecs
  /\ searchOpts \in SearchOptions
  /\ input \in Queries
  /\ result = Refresh(list, input, <<>>)
  /\ slast = [op |-> "init", listBefore |-> list, narrowed |-> FALSE]
  /\ RunnerIdle

\* input.value = q
SetInput(q) ==
  /\ q # input
  /\ input' = q
  /\ result' = Refresh(list, q, result)
  /\ slast' = SearchEvent("input", list)
  /\ UNCHANGED <<list, termsSpec, searchOpts, runnerVars>>

\* the list given as a ref takes the value l
SetList(l) ==
  /\ l # list
  /\ list' = l
  /\ result' = Refresh(l, input, result)
  /\ slast' = SearchEvent("list", l)
  /\ UNCHANGED <<termsSpec, searchOpts, input, runnerVars>>

SearchNext ==
  \/ \E q \in Queries : SetInput(q)
  \/ \E l \in Lists : SetList(l)

SearchSpec == SearchInit /\ [][SearchNext]_vars

(***************************************************************************)
(* Vocabulary of the properties.                                            *)
(***************************************************************************)
\* the latest step was a call of run made while `disabled` was true / false
DisabledCall == last.op = "run" /\ calls[last.call].dis
EnabledCall == last.op = "run" /\ ~calls[last.call].dis
\* the latest step saw the action of call last.call succeed / fail
ActionReturned == last.outcome.k = "return"
ActionThrew == last.outcome.k = "throw"
ActionThrewError == ActionThrew /\ IsError(last.outcome.v)
ActionThrewOther == ActionThrew /\ ~IsError(last.outcome.v)
\* the parseError function in force, and the value lastError is to take for
\* a caught Error e
TheParser == IF parseOpt # NoParser THEN parseOpt ELSE baseParse
ParsedOrMessage(e) ==
  IF TheParser = NoParser THEN Str(e.s) ELSE ApplyParser(TheParser, e)
\* `error` as the latest step found it once lines 75-76 had run
ErrorAfterStart == IF last.op = "run" THEN Null ELSE last.prevError
\* no failure of another call was recorded while call last.call was running
Undisturbed == last.undisturbed

(***************************************************************************)
(* C1: a call of run made while `disabled` is true resolves to null, does   *)
(* not invoke the action, and leaves `pending` and `error` as they were.    *)
(***************************************************************************)
C1_DisabledRunIsNoOp ==
  DisabledCall =>
    /\ last.result = Resolved(Null)
    /\ calls[last.call].st = "resolved"
    /\ last.received = <<>>
    /\ invoked = last.prevInvoked
    /\ pending = last.prevPending
    /\ error = last.prevError

\* a disabled call made after an error was recorded, which it leaves in place
C1_Witness ==
  /\ DisabledCall
  /\ last.prevError # Null
  /\ error = last.prevError

(***************************************************************************)
(* C2, as stated: when the action resolves to V, run returns V, the action  *)
(* received the arguments given to run, and lastError is null after the     *)
(* settlement.                                                              *)
(***************************************************************************)
C2_Original ==
  /\ EnabledCall => last.received = <<last.args>>
  /\ ActionReturned =>
       /\ last.result = Resolved(last.outcome.v)
       /\ calls[last.call].st = "resolved"
       /\ error = Null

(***************************************************************************)
(* C2, amended: when the action resolves to V, run returns V, the action    *)
(* received the arguments given to run, and the settlement leaves lastError *)
(* as it was: null, unless the failure of another call of the same runner   *)
(* was recorded between this call's start and its settlement.               *)
(***************************************************************************)
C2_SuccessReturnsValue ==
  /\ EnabledCall => last.received = <<last.args>>
  /\ ActionReturned =>
       /\ last.result = Resolved(last.outcome.v)
       /\ calls[last.call].st = "resolved"
       /\ error = last.prevError
       /\ Undisturbed => error = Null

\* a success that follows an earlier, failed call and finds lastError reset
C2_Witness ==
  /\ ActionReturned
  /\ last.result = Resolved(Str("hello"))
  /\ error = Null
  /\ \E j \in 1..Len(calls) : j < last.call /\ calls[j].st = "rejected"

(***************************************************************************)
(* C3: when the action throws an Error E and the throw option is false or   *)
(* unset, run resolves to null and lastError is parseError(E) if a parser   *)
(* is configured, E.message otherwise.                                      *)
(***************************************************************************)
C3_SwallowedError ==
  (ActionThrewError /\ throwOpt \in {"unset", "false"}) =>
    /\ last.result = Resolved(Null)
    /\ calls[last.call].st = "resolved"
    /\ error = ParsedOrMessage(last.outcome.v)

\* both forms: the message without a parser, the parsed value with one
C3_Witness ==
  /\ ActionThrewError
  /\ throwOpt = "unset"
  /\ last.result = Resolved(Null)
  /\ \/ TheParser = NoParser /\ error = Str("foo")
     \/ TheParser = "appendBaz" /\ error = Str("foo baz")

(***************************************************************************)
(* C4: when the action throws an Error E and the throw option is true, run  *)
(* rejects and lastError is set as in C3.  run rejects with E itself        *)
(* without a parser, with the parsed value if that is an Error, and with a  *)
(* new Error of the parsed value's string form otherwise.                   *)
(***************************************************************************)
C4_RethrownError ==
  (ActionThrewError /\ throwOpt = "true") =>
    LET e == last.outcome.v
        p == ParsedOrMessage(e)
    IN /\ calls[last.call].st = "rejected"
       /\ error = p
       /\ last.result =
            Rejected(IF TheParser = NoParser THEN e
                     ELSE IF IsError(p) THEN p
                     ELSE Err("Error", ToStr(p)))

\* a string-valued parser, whose result is wrapped into a new Error
C4_Witness ==
  /\ ActionThrewError
  /\ throwOpt = "true"
  /\ TheParser = "appendBaz"
  /\ error = Str("foo baz")
  /\ last.result = Rejected(Err("Error", "foo baz"))

(***************************************************************************)
(* C5: as long as the calls of run have not overlapped, `pending` is false  *)
(* before the first call, true once an enabled call has started an action   *)
(* that has not settled, true for as long as that action is in flight, and  *)
(* false after its settlement, be it a success or a failure.                *)
(***************************************************************************)
C5_PendingSequential ==
  ~overlapped =>
    /\ calls = <<>> => ~pending
    /\ (last.op = "run" /\ last.result.k = "pending") => pending
    /\ InFlight # {} => pending
    /\ (ActionReturned \/ ActionThrew) => ~pending

\* two calls, one after the other: one succeeded, the other failed
C5_Witness ==
  /\ ~overlapped
  /\ Len(calls) >= 2
  /\ last.op = "settle"
  /\ last.prevPending
  /\ ~pending
  /\ \E i, j \in 1..Len(calls) :
       calls[i].st = "resolved" /\ ~calls[i].dis /\ calls[j].st = "rejected"

(***************************************************************************)
(* C6, as stated: `pending` is true if and only if exactly one invocation   *)
(* is between its start and its settlement.                                 *)
(***************************************************************************)
C6_Original == pending <=> Cardinality(InFlight) = 1

(***************************************************************************)
(* C6, amended: `pending` is true only if at least one invocation is        *)
(* between its start and its settlement; and as long as no enabled call was *)
(* made while another was in flight, `pending` is true if and only if       *)
(* exactly one is.                                                          *)
(***************************************************************************)
C6_PendingInvariant ==
  /\ pending => Cardinality(InFlight) >= 1
  /\ ~overlapped => (pending <=> Cardinality(InFlight) = 1)

\* one invocation in flight, `pending` true, after an earlier one has settled
C6_Witness ==
  /\ ~overlapped
  /\ pending
  /\ Cardinality(InFlight) = 1
  /\ Len(calls) >= 2

(***************************************************************************)
(* C7, as stated: when the action throws a value that is no Error, run      *)
(* rejects with a TypeError wrapping it whatever the options, parseError is *)
(* not called, lastError stays at the null written at the start of the      *)
(* call, and `pending` is false afterwards.                                 *)
(***************************************************************************)
C7_Original ==
  ActionThrewOther =>
    /\ last.result =
         Rejected(Err("TypeError", "Action threw a non-Error object: "
                                     \o ToStr(last.outcome.v)))
    /\ calls[last.call].st = "rejected"
    /\ last.parsed = <<>>
    /\ error = Null
    /\ ~pending

(***************************************************************************)
(* C7, amended: when the action throws a value that is no Error, run        *)
(* rejects with a TypeError wrapping it whatever the options, parseError is *)
(* not called, the catch block does not write lastError (it stays null,     *)
(* unless the failure of another call of the same runner was recorded       *)
(* between this call's start and its settlement), and `pending` is false    *)
(* afterwards.                                                              *)
(***************************************************************************)
C7_NonErrorRejects ==
  ActionThrewOther =>
    /\ last.result =
         Rejected(Err("TypeError", "Action threw a non-Error object: "
                                     \o ToStr(last.outcome.v)))
    /\ calls[last.call].st = "rejected"
    /\ last.parsed = <<>>
    /\ error = ErrorAfterStart
    /\ Undisturbed => error = Null
    /\ ~pending

\* a thrown number, with a parser configured and the throw option unset
C7_Witness ==
  /\ ActionThrewOther
  /\ last.outcome.v = Num("42")
  /\ TheParser # NoParser
  /\ throwOpt = "unset"
  /\ last.result =
       Rejected(Err("TypeError", "Action threw a non-Error object: 42"))
  /\ error = Null

(***************************************************************************)
(* C8, as stated: unless the throw option is true, no call of run rejects,  *)
(* whatever the action throws; and once the action has failed, the error    *)
(* state is set (not null).                                                 *)
(***************************************************************************)
C8_Original ==
  /\ throwOpt # "true" =>
       \A i \in 1..Len(calls) : calls[i].st # "rejected"
  /\ ActionThrew => error # Null

(***************************************************************************)
(* C9: the action has been invoked as often as run was called while         *)
(* `disabled` was false; each such call invokes it once, in the call        *)
(* itself, also while earlier invocations are in flight; a call made while  *)
(* `disabled` was true invokes nothing.                                     *)
(***************************************************************************)
C9_InvokedCountsEnabledCalls ==
  /\ invoked = Cardinality({i \in 1..Len(calls) : ~calls[i].dis})
  /\ EnabledCall =>
       /\ invoked = last.prevInvoked + 1
       /\ last.received # <<>>
       /\ InFlight = last.prevInFlight
                       \cup (IF last.result.k = "pending"
                             THEN {last.call} ELSE {})
  /\ DisabledCall => invoked = last.prevInvoked

\* false, true, false over three calls: two invocations
C9_Witness ==
  /\ Len(calls) = 3
  /\ ~calls[1].dis
  /\ calls[2].dis
  /\ ~calls[3].dis
  /\ invoked = 2
  /\ last.prevInFlight # {}

(***************************************************************************)
(* C10: for a runner of createUseAction(base), a failure with Error E sets  *)
(* lastError to options.parseError(E) if the options give a parser, else to *)
(* base.parseError(E) if the factory was given one, else to E.message.      *)
(***************************************************************************)
C10_ParserPrecedence ==
  ActionThrewError =>
    error = IF parseOpt # NoParser THEN ApplyParser(parseOpt, last.outcome.v)
            ELSE IF baseParse # NoParser
            THEN ApplyParser(baseParse, last.outcome.v)
            ELSE Str(last.outcome.v.s)

\* the options' parser overriding the factory's
C10_Witness ==
  /\ ActionThrewError
  /\ parseOpt = "appendBaz"
  /\ baseParse = "appendBar"
  /\ error = Str("foo baz")

(***************************************************************************)
(* Vocabulary of the properties of the search filter.                       *)
(***************************************************************************)
\* the terms extracted from the item at index i of the list
Terms(i) == GetTerms(termsSpec, list[i])
\* the items of the list that have one of their terms in the set good
ItemsWithTerm(good) ==
  FilterByIndex(list, {i \in 1..Len(list) :
                        \E k \in 1..Len(Terms(i)) : Terms(i)[k] \in good})
\* every term of the items of the list
AllTerms == UNION {{Terms(i)[k] : k \in 1..Len(Terms(i))} : i \in 1..Len(list)}
\* the options left at their defaults
DefaultMatching == ~searchOpts.strict /\ ~searchOpts.caseSensitive
TrimOff == searchOpts.trim \in {"unset", "false"}
\* r holds items of l only, no more often than l does, in l's order
IsSubsequence(r, l) ==
  \E f \in [1..Len(r) -> 1..Len(l)] :
    /\ \A i \in 1..Len(r) : r[i] = l[f[i]]
    /\ \A i, j \in 1..Len(r) : i < j => f[i] < f[j]

(***************************************************************************)
(* C11: whenever the query is the empty string, `result` is the full list,  *)
(* for every list, extractor and option setting, also after other queries.  *)
(***************************************************************************)
C11_EmptyQueryGivesList == input = <<>> => result = list

\* the query cleared after one that had left out items
C11_Witness ==
  /\ input = <<>>
  /\ slast.op = "input"
  /\ slast.narrowed
  /\ list # <<>>
  /\ result = list

(***************************************************************************)
(* C12: with the default options and a non-empty query, an item is in       *)
(* `result` if and only if one of its terms, lowercased, contains the       *)
(* lowercased query; an item without terms is never in `result`.            *)
(***************************************************************************)
C12_DefaultSubstringMatch ==
  (DefaultMatching /\ TrimOff /\ input # <<>>) =>
    /\ result = ItemsWithTerm({term \in AllTerms :
                  Includes(ToLowerCase(term), ToLowerCase(input))})
    /\ (\A i \in 1..Len(list) : Terms(i) = <<>>) => result = <<>>

\* an uppercase query that matches some items, not all
C12_Witness ==
  /\ DefaultMatching
  /\ searchOpts.trim = "unset"
  /\ slast.op = "input"
  /\ input = <<"B">>
  /\ result # <<>>
  /\ result # list

(***************************************************************************)
(* C13, as stated: with caseSensitive true (strict false) and a non-empty   *)
(* query, an item is in `result` if and only if one of its terms contains   *)
(* the query in exactly the same letter case ("Bob" finds "Bob").           *)
(***************************************************************************)
C13_Original ==
  (searchOpts.caseSensitive /\ ~searchOpts.strict /\ TrimOff
     /\ input # <<>>) =>
    result = ItemsWithTerm({term \in AllTerms : Includes(term, input)})

(***************************************************************************)
(* C14, as stated: with strict true and a non-empty query, an item is in    *)
(* `result` if and only if one of its terms, trimmed when trim is set and   *)
(* its letter case preserved, equals the query normalized the same way.     *)
(***************************************************************************)
NormalizedQuery == IF searchOpts.trim = "true" THEN Trim(input) ELSE input

C14_Original ==
  (searchOpts.strict /\ NormalizedQuery # <<>>) =>
    result = ItemsWithTerm({term \in AllTerms :
               (IF searchOpts.trim = "true" THEN Trim(term) ELSE term)
                 = NormalizedQuery})

(***************************************************************************)
(* C15, as stated: with the trim option not given, the query and the terms  *)
(* are trimmed before comparing: the result is that of trim: true, and a    *)
(* query of whitespace only gives the full list.                            *)
(***************************************************************************)
C15_Original ==
  searchOpts.trim = "unset" =>
    /\ result = ResultOf(list, termsSpec,
                         [searchOpts EXCEPT !.trim = "true"], input)
    /\ Trim(input) = <<>> => result = list

(***************************************************************************)
(* C16: terms given as field names give the `result` of an extractor        *)
(* function returning the values of those fields, concatenated in field     *)
(* order; a single field name gives that of a one-element sequence.         *)
(***************************************************************************)
C16_FieldsAsFunction ==
  ~termsSpec.isFn =>
    /\ result = ResultOf(list, Fn(ForceArray(termsSpec.names), FALSE),
                         searchOpts, input)
    /\ ~termsSpec.names.isArray =>
         result = ResultOf(list, Fields(ManyNames(<<termsSpec.names.one>>)),
                           searchOpts, input)

\* a string field and a string-array field, the query matching some items
C16_Witness ==
  /\ termsSpec = Fields(ManyNames(<<"last", "tags">>))
  /\ slast.op = "input"
  /\ input # <<>>
  /\ result # <<>>
  /\ result # list

(***************************************************************************)
(* C19: `result` is a subsequence of the current list, it is the function   *)
(* of the current list, query and options whatever the earlier queries      *)
(* were, and evaluating it leaves the list as it was.                       *)
(***************************************************************************)
C19_ResultIsFunctionOfInputs ==
  /\ IsSubsequence(result, list)
  /\ result = ResultOf(list, termsSpec, searchOpts, input)
  /\ list = slast.listBefore

\* a query set after another one had left out items, over a list that holds
\* an item twice
C19_Witness ==
  /\ slast.op = "input"
  /\ slast.narrowed
  /\ list = <<Linda, Bob, Linda>>
  /\ result = <<Linda, Linda>>

(***************************************************************************)
(* Overlapping invocations of one runner.                                   *)
(***************************************************************************)
\* the latest step started an invocation while another one was in flight
StartedDuringAnother ==
  /\ EnabledCall
  /\ last.call \in InFlight
  /\ last.prevInFlight # {}
\* the latest step was the settlement of an invocation older than one that
\* is still running
OlderSettledFirst ==
  /\ last.op = "settle"
  /\ \E j \in InFlight : j > last.call

(***************************************************************************)
(* C17: a call of run made while an invocation is in flight sets `pending`  *)
(* to true and lastError to null; when the older invocation then settles    *)
(* before the newer one, its settlement sets `pending` to false while the   *)
(* newer invocation is still running.                                       *)
(***************************************************************************)
C17_OverlapRace ==
  /\ StartedDuringAnother => (pending /\ error = Null)
  /\ OlderSettledFirst => ~pending

\* the first of two invocations has settled, the second is in flight and
\* `pending`, true before that settlement, is false
C17_Witness ==
  /\ OlderSettledFirst
  /\ last.call = 1
  /\ last.prevPending
  /\ 2 \in InFlight
  /\ ~calls[2].dis
  /\ ~pending

(***************************************************************************)
(* C18, as stated: once all overlapping invocations have settled, lastError *)
(* shows the outcome of the invocation started last: null if it succeeded,  *)
(* its parsed error (or message) if it failed with an Error.                *)
(***************************************************************************)
C18_Original ==
  (overlapped /\ InFlight = {} /\ newest.call # 0) =>
    /\ newest.out.k = "return" => error = Null
    /\ (newest.out.k = "throw" /\ IsError(newest.out.v)) =>
         error = ParsedOrMessage(newest.out.v)

(***************************************************************************)
(* C18, amended: lastError shows the last write, not the invocation started *)
(* last: it is null if no invocation has failed with an Error since the     *)
(* latest invocation started, and otherwise the parsed error (or message)   *)
(* of the Error caught last, whichever invocation threw it.                 *)
(***************************************************************************)
C18_LastWriteWins ==
  error = IF lastFailure = NoOutcome THEN Null
          ELSE ParsedOrMessage(lastFailure.v)

\* all invocations have settled, the one started last succeeded, and
\* lastError holds the failure of an older one that settled after it
C18_Witness ==
  /\ overlapped
  /\ InFlight = {}
  /\ newest.out.k = "return"
  /\ last.op = "settle"
  /\ last.call < newest.call
  /\ ActionThrewError
  /\ error = ParsedOrMessage(last.outcome.v)
  /\ error # Null

(***************************************************************************)
(* C20: under every interleaving of calls and settlements, `pending` is     *)
(* false whenever no invocation is in flight: after construction, after a   *)
(* call whose action threw at once, and once the last running invocation    *)
(* has settled; so when every started action settles and the calls of run   *)
(* come to an end, `pending` becomes false and stays false.                 *)
(***************************************************************************)
IdleMeansNotPending == InFlight = {} => ~pending

C20_PendingEndsFalse ==
  /\ []IdleMeansNotPending
  /\ <>[][~Start]_vars => <>[](~pending)

\* overlapping invocations, the last of them has just settled
C20_Witness ==
  /\ overlapped
  /\ last.op = "settle"
  /\ Cardinality(last.prevInFlight) = 1
  /\ InFlight = {}
  /\ Len(calls) = MaxCalls
  /\ ~pending

(***************************************************************************)
(* `disabled` set while an invocation is in flight.                         *)
(***************************************************************************)
\* the latest step assigned the ref `disabled`
Toggled == last.op = "toggle"
\* the latest step was a settlement that found `disabled` true
SettledWhileDisabled == last.op = "settle" /\ disabled

(***************************************************************************)
(* C21: setting `disabled` while an invocation is in flight neither cancels *)
(* nor freezes it: the assignment leaves the invocations in flight,         *)
(* `pending` and lastError as they were; a settlement that finds `disabled` *)
(* true still ends the invocation, sets `pending` to false and, on a        *)
(* failure with an Error, writes lastError; and a call of run made while    *)
(* `disabled` is true invokes nothing and changes neither.                  *)
(***************************************************************************)
C21_DisabledDoesNotCancel ==
  /\ Toggled =>
       /\ InFlight = last.prevInFlight
       /\ pending = last.prevPending
       /\ error = last.prevError
  /\ SettledWhileDisabled =>
       /\ last.call \notin InFlight
       /\ ~pending
       /\ ActionThrewError => error = ParsedOrMessage(last.outcome.v)
       /\ ActionReturned => error = last.prevError
  /\ (last.op = "run" /\ disabled) =>
       /\ calls[last.call].dis
       /\ invoked = last.prevInvoked
       /\ pending = last.prevPending
       /\ error = last.prevError

\* an invocation started while enabled fails while `disabled` is true, after
\* a call of run that was a no-op: `pending` and lastError both change
C21_Witness ==
  /\ SettledWhileDisabled
  /\ ~calls[last.call].dis
  /\ \E j \in 1..Len(calls) : j > last.call /\ calls[j].dis
  /\ ActionThrewError
  /\ last.prevPending
  /\ ~pending
  /\ last.prevError = Null
  /\ error # Null

====
